---- MODULE Spec2Model ----
(***************************************************************************)
(* Model of the calculator example crate (examples/rust/src/lib.rs and     *)
(* operations.rs): Calculator with its history of OperationResult, and     *)
(* ScientificCalculator, which owns a Calculator and a use_degrees flag.   *)
(*                                                                         *)
(* An f64 is a record [k, s, n, d, t]: k = "nan", "inf" or "fin", s the    *)
(* sign bit as 1 or -1, and for a finite value n/d the magnitude in lowest *)
(* terms (the f64 nearest to that rational; every operand drawn below is   *)
(* a small integer, so sums, differences and products are exact).  The     *)
(* field t names the transcendental functions applied on top of the        *)
(* rational, outermost last, where the result is no rational.              *)
(***************************************************************************)
EXTENDS Integers, Sequences, FiniteSets, TLC

VARIABLES history, use_degrees, panicked, last, okCount, lastSet, removed

vars == <<history, use_degrees, panicked, last, okCount, lastSet, removed>>

(* Bound of the model: calls that would grow the history past it are not taken. *)
MaxHist == 2

(* Bound on the history of the Calculator owned by a ScientificCalculator. *)
MaxSciHist == 1

----------------------------------------------------------------------------
(* f64 values *)

(* The place of an f64 that a call does not have (no operand, no value). *)
None == [k |-> "none", s |-> 1, n |-> 0, d |-> 1, t |-> <<>>]

NaN == [k |-> "nan", s |-> 1, n |-> 0, d |-> 1, t |-> <<>>]

Inf(sg) == [k |-> "inf", s |-> sg, n |-> 1, d |-> 0, t |-> <<>>]

Fin(sg, num, den) == [k |-> "fin", s |-> sg, n |-> num, d |-> den, t |-> <<>>]

PosZero == Fin(1, 0, 1)

NegZero == Fin(-1, 0, 1)

Abs(i) == IF i < 0 THEN -i ELSE i

Sgn(i) == IF i < 0 THEN -1 ELSE 1

FromInt(i) == Fin(Sgn(i), Abs(i), 1)

RECURSIVE GCD(_, _)
GCD(x, y) == IF y = 0 THEN x ELSE GCD(y, x % y)

(* The finite f64 of sign sg and magnitude num/den, in lowest terms. *)
Norm(sg, num, den) == LET g == GCD(num, den) IN Fin(sg, num \div g, den \div g)

IsNaN(x) == x.k = "nan"

IsZero(x) == x.k = "fin" /\ x.n = 0 /\ x.t = <<>>

IsRational(x) == x.k = "fin" /\ x.t = <<>>

(* f64 == : NaN equals nothing, +0.0 equals -0.0. *)
FEq(x, y) ==
    /\ ~IsNaN(x)
    /\ ~IsNaN(y)
    /\ \/ (IsZero(x) /\ IsZero(y))
       \/ x = y

(* f64 <= on the values without a transcendental part. *)
FLe(x, y) ==
    /\ ~IsNaN(x)
    /\ ~IsNaN(y)
    /\ \/ (x.k = "inf" /\ x.s = -1)
       \/ (y.k = "inf" /\ y.s = 1)
       \/ (x.k = "fin" /\ y.k = "fin" /\ x.s * x.n * y.d <= y.s * y.n * x.d)

FNeg(x) == IF IsNaN(x) THEN x ELSE [x EXCEPT !.s = -x.s]

(* f64 + *)
FAdd(x, y) ==
    IF IsNaN(x) \/ IsNaN(y) THEN NaN
    ELSE IF x.k = "inf" /\ y.k = "inf" THEN (IF x.s = y.s THEN x ELSE NaN)
    ELSE IF x.k = "inf" THEN x
    ELSE IF y.k = "inf" THEN y
    ELSE LET num == x.s * x.n * y.d + y.s * y.n * x.d
             den == x.d * y.d
         IN  IF num = 0
             THEN (IF x.s = -1 /\ y.s = -1 THEN NegZero ELSE PosZero)
             ELSE Norm(Sgn(num), Abs(num), den)

(* f64 - *)
FSub(x, y) == FAdd(x, FNeg(y))

(* f64 * *)
FMul(x, y) ==
    IF IsNaN(x) \/ IsNaN(y) THEN NaN
    ELSE IF (x.k = "inf" /\ IsZero(y)) \/ (IsZero(x) /\ y.k = "inf") THEN NaN
    ELSE IF x.k = "inf" \/ y.k = "inf" THEN Inf(x.s * y.s)
    ELSE Norm(x.s * y.s, x.n * y.n, x.d * y.d)

(* f64 / *)
FDiv(x, y) ==
    IF IsNaN(x) \/ IsNaN(y) THEN NaN
    ELSE IF x.k = "inf" /\ y.k = "inf" THEN NaN
    ELSE IF x.k = "inf" THEN Inf(x.s * y.s)
    ELSE IF y.k = "inf" THEN Fin(x.s * y.s, 0, 1)
    ELSE IF IsZero(y) THEN (IF IsZero(x) THEN NaN ELSE Inf(x.s * y.s))
    ELSE Norm(x.s * y.s, x.n * y.d, x.d * y.n)

----------------------------------------------------------------------------
(* operations.rs *)

Operation == {"Add", "Subtract", "Multiply", "Divide"}

OperationResult(a, b, op, result) ==
    [operand_a |-> a, operand_b |-> b, operation |-> op, result |-> result]

----------------------------------------------------------------------------
(* What a call hands back: a plain f64, Ok(f64), Err(e), nothing, or a panic. *)

NoErr == "none"

RetF64(v) == [tag |-> "f64", val |-> v, err |-> NoErr]

RetOk(v) == [tag |-> "Ok", val |-> v, err |-> NoErr]

RetErr(e) == [tag |-> "Err", val |-> None, err |-> e]

RetUnit == [tag |-> "unit", val |-> None, err |-> NoErr]

RetPanic == [tag |-> "panic", val |-> None, err |-> NoErr]

(* A method's outcome: the history it leaves and what it returns. *)
Outcome(h, r) == [history |-> h, ret |-> r]

----------------------------------------------------------------------------
(* impl Calculator *)

(* record, putting the entry at the front. *)
record_front(h, a, b, op, result) == <<OperationResult(a, b, op, result)>> \o h

record(h, a, b, op, result) == Append(h, OperationResult(a, b, op, result))

add(h, a, b) ==
    LET result == FAdd(a, b)
    IN  Outcome(record(h, a, b, "Add", result), RetF64(result))

(* subtract with its operands the wrong way round. *)
subtract_swapped(h, a, b) ==
    LET result == FSub(b, a)
    IN  Outcome(record(h, a, b, "Subtract", result), RetF64(result))

subtract(h, a, b) ==
    LET result == FSub(a, b)
    IN  Outcome(record(h, a, b, "Subtract", result), RetF64(result))

multiply(h, a, b) ==
    LET result == FMul(a, b)
    IN  Outcome(record(h, a, b, "Multiply", result), RetF64(result))

(* divide, recording the call before it looks at the divisor. *)
divide_recording_failure(h, a, b) ==
    IF FEq(b, PosZero)
    THEN Outcome(record(h, a, b, "Divide", FDiv(a, b)), RetErr("DivisionByZero"))
    ELSE LET result == FDiv(a, b)
         IN  Outcome(record(h, a, b, "Divide", result), RetOk(result))

(* divide, comparing the bits of the divisor with those of 0.0. *)
divide_bitwise_zero(h, a, b) ==
    IF b = PosZero
    THEN Outcome(h, RetErr("DivisionByZero"))
    ELSE LET result == FDiv(a, b)
         IN  Outcome(record(h, a, b, "Divide", result), RetOk(result))

divide(h, a, b) ==
    IF FEq(b, PosZero)
    THEN Outcome(h, RetErr("DivisionByZero"))
    ELSE LET result == FDiv(a, b)
         IN  Outcome(record(h, a, b, "Divide", result), RetOk(result))

(* Result::unwrap_or(f64::NAN) in the place of expect. *)
unwrap_or_nan(o) ==
    IF o.ret.tag = "Ok"
    THEN Outcome(o.history, RetF64(o.ret.val))
    ELSE Outcome(o.history, RetF64(NaN))

(* Result::expect: the Ok value, or a panic. *)
expect(o) ==
    IF o.ret.tag = "Ok"
    THEN Outcome(o.history, RetF64(o.ret.val))
    ELSE Outcome(o.history, RetPanic)

(* calculate with the Subtract arm calling add. *)
calculate_misdispatch(h, a, b, op) ==
    CASE op = "Add" -> add(h, a, b)
      [] op = "Subtract" -> add(h, a, b)
      [] op = "Multiply" -> multiply(h, a, b)
      [] op = "Divide" -> expect(divide(h, a, b))

calculate(h, a, b, op) ==
    CASE op = "Add" -> add(h, a, b)
      [] op = "Subtract" -> subtract(h, a, b)
      [] op = "Multiply" -> multiply(h, a, b)
      [] op = "Divide" -> expect(divide(h, a, b))

(* clear_history calling Vec::pop in the place of Vec::clear. *)
clear_history_pop(h) ==
    Outcome(IF h = <<>> THEN h ELSE SubSeq(h, 1, Len(h) - 1), RetUnit)

clear_history(h) == Outcome(<<>>, RetUnit)

----------------------------------------------------------------------------
(* f64 functions of the standard library used by ScientificCalculator *)

RECURSIVE IPow(_, _)
IPow(x, e) == IF e = 0 THEN 1 ELSE x * IPow(x, e - 1)

IsSquare(i) == \E r \in 0..i : r * r = i

ISqrt(i) == CHOOSE r \in 0..i : r * r = i

(* One more transcendental function on top of a value that has no closed form. *)
Sym(x, f) == [x EXCEPT !.t = Append(@, f)]

(* f64::to_radians: x * (PI / 180.0) *)
to_radians(x) ==
    IF IsNaN(x) \/ x.k = "inf" \/ IsZero(x) THEN x
    ELSE Sym(x, "to_radians")

(* f64::sin *)
FSin(x) ==
    IF IsNaN(x) \/ x.k = "inf" THEN NaN
    ELSE IF IsZero(x) THEN x
    ELSE Sym(x, "sin")

(* f64::cos *)
FCos(x) ==
    IF IsNaN(x) \/ x.k = "inf" THEN NaN
    ELSE IF IsZero(x) THEN FromInt(1)
    ELSE Sym(x, "cos")

(* f64::ln *)
FLn(x) ==
    IF IsNaN(x) THEN NaN
    ELSE IF IsZero(x) THEN Inf(-1)
    ELSE IF x.s = -1 THEN NaN
    ELSE IF x.k = "inf" THEN x
    ELSE IF x = FromInt(1) THEN PosZero
    ELSE Sym(x, "ln")

(* f64::sqrt *)
FSqrt(x) ==
    IF IsNaN(x) THEN NaN
    ELSE IF IsZero(x) THEN x
    ELSE IF x.s = -1 THEN NaN
    ELSE IF x.k = "inf" THEN x
    ELSE IF IsRational(x) /\ IsSquare(x.n) /\ IsSquare(x.d)
         THEN Fin(1, ISqrt(x.n), ISqrt(x.d))
    ELSE Sym(x, "sqrt")

IsInteger(y) == IsRational(y) /\ y.d = 1

IsOddInteger(y) == IsInteger(y) /\ y.n % 2 = 1

(* |x| compared with 1: -1 below, 0 equal, 1 above. *)
MagVsOne(x) ==
    IF x.k = "inf" THEN 1
    ELSE IF x.n < x.d THEN -1
    ELSE IF x.n = x.d THEN 0
    ELSE 1

(* f64::powf, for the exponents that are integers, infinities or NaN. *)
FPow(x, y) ==
    IF IsZero(y) THEN FromInt(1)
    ELSE IF x = FromInt(1) THEN FromInt(1)
    ELSE IF IsNaN(x) \/ IsNaN(y) THEN NaN
    ELSE IF y.k = "inf"
         THEN (IF MagVsOne(x) = 0 THEN FromInt(1)
               ELSE IF (MagVsOne(x) = 1) = (y.s = 1) THEN Inf(1)
               ELSE PosZero)
    ELSE IF x.k = "inf"
         THEN (IF y.s = -1
               THEN Fin(IF x.s = -1 /\ IsOddInteger(y) THEN -1 ELSE 1, 0, 1)
               ELSE Inf(IF x.s = -1 /\ IsOddInteger(y) THEN -1 ELSE 1))
    ELSE IF IsZero(x)
         THEN (IF y.s = -1
               THEN Inf(IF x.s = -1 /\ IsOddInteger(y) THEN -1 ELSE 1)
               ELSE Fin(IF x.s = -1 /\ IsOddInteger(y) THEN -1 ELSE 1, 0, 1))
    ELSE LET sg == IF x.s = -1 /\ IsOddInteger(y) THEN -1 ELSE 1
             num == IPow(x.n, y.n)
             den == IPow(x.d, y.n)
         IN  IF y.s = -1 THEN Norm(sg, den, num) ELSE Norm(sg, num, den)

----------------------------------------------------------------------------
(* impl ScientificCalculator; deg is the use_degrees field *)

set_use_degrees(deg, flag) == flag

(* sin without the conversion. *)
sin_ignoring_mode(deg, angle) == RetF64(FSin(angle))

sin(deg, angle) ==
    LET radians == IF deg THEN to_radians(angle) ELSE angle
    IN  RetF64(FSin(radians))

cos(deg, angle) ==
    LET radians == IF deg THEN to_radians(angle) ELSE angle
    IN  RetF64(FCos(radians))

(* ln with x < 0.0 as its test. *)
ln_strict(x) ==
    IF FLe(x, PosZero) /\ ~FEq(x, PosZero)
    THEN RetErr("Overflow")
    ELSE RetOk(FLn(x))

ln(x) ==
    IF FLe(x, PosZero)
    THEN RetErr("Overflow")
    ELSE RetOk(FLn(x))

sqrt(x) == RetF64(FSqrt(x))

pow(base, exponent) == RetF64(FPow(base, exponent))

----------------------------------------------------------------------------
(* The state.  history is the Calculator's field (for a                    *)
(* ScientificCalculator, the field of the Calculator it owns, reached by   *)
(* basic() and basic_mut()), use_degrees the ScientificCalculator's field, *)
(* panicked whether a call has panicked.  The others observe the calls:    *)
(* last is the most recent call that returns something to look at (every   *)
(* call but set_use_degrees), with its arguments, the use_degrees flag it  *)
(* read and what it returned; okCount the number of basic-operation calls  *)
(* that have returned a value since construction or the most recent        *)
(* clear_history; lastSet the argument of the most recent set_use_degrees  *)
(* call (empty before the first); removed the number of entries the most   *)
(* recent call took out of the history.                                    *)

Call(name, a, b, op, deg, ret) ==
    [call |-> name, a |-> a, b |-> b, op |-> op, deg |-> deg, ret |-> ret]

NoOp == "none"

Flags == {TRUE, FALSE}

(* Calculator::new, ScientificCalculator::new *)
Init ==
    /\ history = <<>>
    /\ use_degrees = FALSE
    /\ panicked = FALSE
    /\ last = Call("new", None, None, NoOp, FALSE, RetUnit)
    /\ okCount = 0
    /\ lastSet = <<>>
    /\ removed = 0

Succeeded(ret) == ret.tag \in {"f64", "Ok"}

(* A call of a Calculator method with outcome o. *)
BasicCall(name, a, b, op, o) ==
    /\ ~panicked
    /\ history' = o.history
    /\ panicked' = (o.ret.tag = "panic")
    /\ last' = Call(name, a, b, op, FALSE, o.ret)
    /\ okCount' = IF Succeeded(o.ret) THEN okCount + 1 ELSE okCount
    /\ removed' = 0
    /\ UNCHANGED <<use_degrees, lastSet>>

Add(a, b) == BasicCall("add", a, b, NoOp, add(history, a, b))

Subtract(a, b) == BasicCall("subtract", a, b, NoOp, subtract(history, a, b))

Multiply(a, b) == BasicCall("multiply", a, b, NoOp, multiply(history, a, b))

Divide(a, b) == BasicCall("divide", a, b, NoOp, divide(history, a, b))

Calculate(a, b, op) == BasicCall("calculate", a, b, op, calculate(history, a, b, op))

ClearHistory ==
    /\ ~panicked
    /\ history' = clear_history(history).history
    /\ last' = Call("clear_history", None, None, NoOp, FALSE, clear_history(history).ret)
    /\ okCount' = 0
    /\ removed' = Len(history) - Len(clear_history(history).history)
    /\ UNCHANGED <<use_degrees, panicked, lastSet>>

(* A call of a ScientificCalculator method that takes &self. *)
SciCall(name, a, b, ret) ==
    /\ ~panicked
    /\ last' = Call(name, a, b, NoOp, use_degrees, ret)
    /\ removed' = 0
    /\ UNCHANGED <<history, use_degrees, panicked, okCount, lastSet>>

SetUseDegrees(flag) ==
    /\ ~panicked
    /\ use_degrees' = set_use_degrees(use_degrees, flag)
    /\ lastSet' = <<flag>>
    /\ removed' = 0
    /\ UNCHANGED <<history, panicked, last, okCount>>

Sin(angle) == SciCall("sin", angle, None, sin(use_degrees, angle))

Cos(angle) == SciCall("cos", angle, None, cos(use_degrees, angle))

Ln(x) == SciCall("ln", x, None, ln(x))

(* sqrt recording its call in the history of the owned Calculator. *)
SqrtRecording(x) ==
    /\ ~panicked
    /\ last' = Call("sqrt", x, None, NoOp, use_degrees, sqrt(x))
    /\ history' = record(history, x, x, "Multiply", sqrt(x).val)
    /\ removed' = 0
    /\ UNCHANGED <<use_degrees, panicked, okCount, lastSet>>

Sqrt(x) == SciCall("sqrt", x, None, sqrt(x))

Pow(base, exponent) == SciCall("pow", base, exponent, pow(base, exponent))

(* The bound: the step leaves a history of at most cap entries. *)
Within(cap) == Len(history') <= cap

----------------------------------------------------------------------------
(* A Calculator on its own, called with a few operands, to any depth up to *)
(* MaxHist.                                                                *)

OperandsA == {FromInt(1), FromInt(-5)}

OperandsB == {PosZero, FromInt(3)}

Next ==
    \/ \E a \in OperandsA, b \in OperandsB : Add(a, b) /\ Within(MaxHist)
    \/ \E a \in OperandsA, b \in OperandsB : Subtract(a, b) /\ Within(MaxHist)
    \/ \E a \in OperandsA, b \in OperandsB : Multiply(a, b) /\ Within(MaxHist)
    \/ \E a \in OperandsA, b \in OperandsB : Divide(a, b) /\ Within(MaxHist)
    \/ \E a \in OperandsA, b \in OperandsB, op \in Operation :
           Calculate(a, b, op) /\ Within(MaxHist)
    \/ ClearHistory

Spec == Init /\ [][Next]_vars

----------------------------------------------------------------------------
(* A Calculator called with every pair of Operands in each of the states   *)
(* tests::test_history takes it through.                                   *)

Operands ==
    {PosZero, NegZero, FromInt(1), FromInt(2), FromInt(3), FromInt(5),
     FromInt(-3), NaN, Inf(1), Inf(-1)}

TestHistory0 == <<>>

TestHistory1 == add(TestHistory0, FromInt(1), FromInt(2)).history

TestHistory2 == subtract(TestHistory1, FromInt(5), FromInt(3)).history

TestHistories == {TestHistory0, TestHistory1, TestHistory2}

InTest == history \in TestHistories

ArithNext ==
    \/ \E a, b \in Operands : InTest /\ Add(a, b)
    \/ \E a, b \in Operands : InTest /\ Subtract(a, b)
    \/ \E a, b \in Operands : InTest /\ Multiply(a, b)
    \/ \E a, b \in Operands : InTest /\ Divide(a, b)
    \/ \E a, b \in Operands, op \in Operation : InTest /\ Calculate(a, b, op)

ArithSpec == Init /\ [][ArithNext]_vars

----------------------------------------------------------------------------
(* A ScientificCalculator, its Calculator used through basic_mut().        *)

SciOperands ==
    {PosZero, NegZero, FromInt(1), FromInt(4), FromInt(90), FromInt(-1),
     NaN, Inf(1), Inf(-1)}

PowBases == {NegZero, FromInt(2), FromInt(-3), NaN}

PowExponents == {PosZero, FromInt(3), FromInt(-2), Inf(1)}

SciNext ==
    \/ \E flag \in Flags : SetUseDegrees(flag)
    \/ \E angle \in SciOperands : Sin(angle)
    \/ \E angle \in SciOperands : Cos(angle)
    \/ \E x \in SciOperands : Ln(x)
    \/ \E x \in SciOperands : Sqrt(x)
    \/ \E base \in PowBases, exponent \in PowExponents : Pow(base, exponent)
    \/ \E a \in OperandsA, b \in OperandsB : Add(a, b) /\ Within(MaxSciHist)
    \/ \E a \in OperandsA, b \in OperandsB : Subtract(a, b) /\ Within(MaxSciHist)
    \/ \E a \in OperandsA, b \in OperandsB : Multiply(a, b) /\ Within(MaxSciHist)
    \/ \E a \in OperandsA, b \in OperandsB : Divide(a, b) /\ Within(MaxSciHist)
    \/ \E a \in OperandsA, b \in OperandsB, op \in Operation :
           Calculate(a, b, op) /\ Within(MaxSciHist)
    \/ ClearHistory

SciSpec == Init /\ [][SciNext]_vars

----------------------------------------------------------------------------
(* Vocabulary of the properties *)

DirectNames == {"add", "subtract", "multiply", "divide"}

SciNames == {"sin", "cos", "ln", "sqrt", "pow"}

TagOf(name) ==
    CASE name = "add" -> "Add"
      [] name = "subtract" -> "Subtract"
      [] name = "multiply" -> "Multiply"
      [] name = "divide" -> "Divide"

(* x is 0.0 or -0.0, read off the representation. *)
IsFloatZero(x) == x.k = "fin" /\ x.n = 0

IsFinite(x) == x.k = "fin"

(* The integer a finite operand stands for (every operand has d = 1). *)
IntVal(x) == x.s * x.n

(* v is the finite value whose numerator and denominator are num/den (den > 0). *)
IsRatio(v, num, den) == v.k = "fin" /\ v.t = <<>> /\ v.s * v.n * den = num * v.d

----------------------------------------------------------------------------
(* C1: the length of the history is the number of basic-operation calls    *)
(* that returned a value since construction or the most recent             *)
(* clear_history; a divide that returns DivisionByZero is not counted and  *)
(* adds nothing.                                                           *)
C1_HistoryLengthCountsSuccesses == Len(history) = okCount

(* A divide has just failed on a history that holds an entry. *)
C1_Witness ==
    /\ last.call = "divide"
    /\ last.ret = RetErr("DivisionByZero")
    /\ Len(history) = 1
    /\ okCount = 1

(* C2: divide(a, b) returns DivisionByZero exactly when b is 0.0 (of       *)
(* either sign); for every other b, NaN and the infinities included, it    *)
(* returns Ok(a / b).                                                      *)
C2_DivideErrorIffZero ==
    last.call = "divide" =>
        /\ (last.ret = RetErr("DivisionByZero")) <=> IsFloatZero(last.b)
        /\ ~IsFloatZero(last.b) =>
               /\ last.ret = RetOk(FDiv(last.a, last.b))
               /\ (IsFinite(last.a) /\ IsFinite(last.b)) =>
                      IsRatio(last.ret.val, IntVal(last.a) * Sgn(IntVal(last.b)),
                              Abs(IntVal(last.b)))

(* divide(a, -0.0) has returned the error. *)
C2_Witness ==
    /\ last.call = "divide"
    /\ last.b = NegZero
    /\ last.ret = RetErr("DivisionByZero")

(* C3: a successful add, subtract, multiply or divide puts exactly one     *)
(* record (its operands, its tag, the value it returned) at the end of the *)
(* history and leaves the earlier entries where they were.                 *)
C3_AppendOnly ==
    [][(last'.call \in DirectNames /\ Succeeded(last'.ret)) =>
         /\ Len(history') = Len(history) + 1
         /\ \A i \in 1..Len(history) : history'[i] = history[i]
         /\ history'[Len(history')] =
                [operand_a |-> last'.a, operand_b |-> last'.b,
                 operation |-> TagOf(last'.call), result |-> last'.ret.val]]_vars

(* An add and then a subtract: the entries are in the order of the calls. *)
C3_Witness ==
    /\ Len(history) = 2
    /\ history[1].operation = "Add"
    /\ history[2].operation = "Subtract"
    /\ last.call = "subtract"
    /\ history[2].result = last.ret.val

(* C4: clear_history leaves the history empty whatever it held, and a      *)
(* second clear_history right after the first changes nothing.             *)
C4_ClearEmptiesIdempotent ==
    [][last'.call = "clear_history" =>
         /\ history' = <<>>
         /\ last.call = "clear_history" =>
                (history' = history /\ okCount' = okCount /\ use_degrees' = use_degrees)]_vars

(* clear_history has just emptied a history of MaxHist entries. *)
C4_Witness ==
    /\ last.call = "clear_history"
    /\ removed = MaxHist
    /\ history = <<>>

(* C5: calculate(a, b, op), for Add, Subtract, Multiply and for Divide     *)
(* with b != 0.0, returns the value and leaves the history that the direct *)
(* call of the operation leaves from the same state: one more record,      *)
(* tagged op.                                                              *)
C5_CalculateDispatches ==
    [][(last'.call = "calculate" /\ ~(last'.op = "Divide" /\ IsFloatZero(last'.b))) =>
         LET a == last'.a
             b == last'.b
         IN  /\ last'.op = "Add" =>
                    /\ history' = add(history, a, b).history
                    /\ last'.ret = add(history, a, b).ret
             /\ last'.op = "Subtract" =>
                    /\ history' = subtract(history, a, b).history
                    /\ last'.ret = subtract(history, a, b).ret
             /\ last'.op = "Multiply" =>
                    /\ history' = multiply(history, a, b).history
                    /\ last'.ret = multiply(history, a, b).ret
             /\ last'.op = "Divide" =>
                    /\ history' = divide(history, a, b).history
                    /\ last'.ret.tag = "f64"
                    /\ last'.ret.val = divide(history, a, b).ret.val
             /\ Len(history') = Len(history) + 1
             /\ history'[Len(history')].operation = last'.op
             /\ ~panicked']_vars

(* calculate(5, 3, Subtract) after the two calls of test_history. *)
C5_Witness ==
    /\ last.call = "calculate"
    /\ last.op = "Subtract"
    /\ last.a = FromInt(5)
    /\ last.b = FromInt(3)
    /\ last.ret = RetF64(FromInt(2))
    /\ Len(history) = 3
    /\ history[3] = history[2]

(* C6: calculate(a, 0.0, Divide) panics, divide(a, 0.0) returns            *)
(* Err(DivisionByZero) and the calculator goes on; neither appends a       *)
(* record.                                                                 *)
C6_ZeroDivisorPanicsOrErrs ==
    [][/\ (last'.call = "calculate" /\ last'.op = "Divide" /\ IsFloatZero(last'.b)) =>
              (last'.ret = RetPanic /\ panicked' /\ history' = history)
       /\ (last'.call = "divide" /\ IsFloatZero(last'.b)) =>
              (last'.ret = RetErr("DivisionByZero") /\ ~panicked' /\ history' = history)]_vars

(* calculate(a, -0.0, Divide) has panicked with two entries in the history. *)
C6_Witness ==
    /\ panicked
    /\ last.call = "calculate"
    /\ last.op = "Divide"
    /\ last.b = NegZero
    /\ Len(history) = 2

(* C7: sin, cos, ln, sqrt and pow (and set_use_degrees) leave the history  *)
(* of the owned Calculator as it is; the history grows only by a basic     *)
(* operation called through basic_mut(), and by the record of that call.   *)
C7_ScientificLeavesHistory ==
    [][/\ last'.call \in SciNames => history' = history
       /\ (use_degrees' # use_degrees \/ lastSet' # lastSet) => history' = history
       /\ Len(history') > Len(history) =>
              /\ last'.call \in DirectNames \cup {"calculate"}
              /\ history' = Append(history,
                     [operand_a |-> last'.a, operand_b |-> last'.b,
                      operation |-> IF last'.call = "calculate" THEN last'.op
                                    ELSE TagOf(last'.call),
                      result |-> last'.ret.val])]_vars

(* ln has failed on a ScientificCalculator whose Calculator holds an entry. *)
C7_Witness ==
    /\ last.call = "ln"
    /\ last.ret = RetErr("Overflow")
    /\ Len(history) = 1
    /\ history[1].operation = "Multiply"

(* C8: use_degrees is false until the first set_use_degrees and then the   *)
(* argument of the most recent one; sin and cos convert the angle to       *)
(* radians exactly when the flag was true at the call, and what they       *)
(* returned stays what it was when the flag is set afterwards.             *)
C8_UseDegrees ==
    /\ use_degrees = (IF lastSet = <<>> THEN FALSE ELSE lastSet[1])
    /\ last.call \in {"sin", "cos"} =>
           /\ last.ret.tag = "f64"
           /\ (IsFinite(last.a) /\ ~IsFloatZero(last.a)) =>
                  last.ret.val.t = (IF last.deg THEN <<"to_radians", last.call>>
                                    ELSE <<last.call>>)
           /\ last.call = "sin" =>
                  last.ret.val = FSin(IF last.deg THEN to_radians(last.a) ELSE last.a)
           /\ last.call = "cos" =>
                  last.ret.val = FCos(IF last.deg THEN to_radians(last.a) ELSE last.a)

(* sin(90) was taken in degrees, and the flag has been set to false since. *)
C8_Witness ==
    /\ last.call = "sin"
    /\ last.a = FromInt(90)
    /\ last.deg
    /\ last.ret.val.t = <<"to_radians", "sin">>
    /\ lastSet = <<FALSE>>
    /\ ~use_degrees

(* C9: ln(x) returns Err(Overflow) for x <= 0.0 (0.0, -0.0, -1.0, minus    *)
(* infinity) and Ok(ln x) for x > 0.0, whatever use_degrees and the        *)
(* history are.                                                            *)
C9_LnDomain ==
    last.call = "ln" =>
        LET x == last.a
            nonPositive == (x.k = "inf" /\ x.s = -1) \/ (x.k = "fin" /\ (x.n = 0 \/ x.s = -1))
            positive == (x.k = "inf" /\ x.s = 1) \/ (x.k = "fin" /\ x.n > 0 /\ x.s = 1)
        IN  /\ nonPositive => last.ret = RetErr("Overflow")
            /\ positive => last.ret = RetOk(FLn(x))
            /\ (positive /\ IsFinite(x) /\ x # FromInt(1)) => last.ret.val.t = <<"ln">>

(* ln(-0.0) has failed in degrees mode with an entry in the history. *)
C9_Witness ==
    /\ last.call = "ln"
    /\ last.a = NegZero
    /\ last.ret = RetErr("Overflow")
    /\ use_degrees
    /\ Len(history) = 1

(* C10: for finite a and b, add returns a + b, subtract a - b and multiply *)
(* a * b; the three never fail, whatever the operands and the history.     *)
C10_Arithmetic ==
    last.call \in {"add", "subtract", "multiply"} =>
        /\ last.ret.tag = "f64"
        /\ ~panicked
        /\ (IsFinite(last.a) /\ IsFinite(last.b)) =>
               /\ last.call = "add" =>
                      /\ IsRatio(last.ret.val, IntVal(last.a) + IntVal(last.b), 1)
                      /\ last.ret.val = FAdd(last.a, last.b)
               /\ last.call = "subtract" =>
                      /\ IsRatio(last.ret.val, IntVal(last.a) - IntVal(last.b), 1)
                      /\ last.ret.val = FSub(last.a, last.b)
               /\ last.call = "multiply" =>
                      /\ IsRatio(last.ret.val, IntVal(last.a) * IntVal(last.b), 1)
                      /\ last.ret.val = FMul(last.a, last.b)

(* subtract(-3, 5) = -8 on the history test_history leaves. *)
C10_Witness ==
    /\ last.call = "subtract"
    /\ last.a = FromInt(-3)
    /\ last.b = FromInt(5)
    /\ last.ret = RetF64(FromInt(-8))
    /\ Len(history) = 3

====
